---- MODULE Spec2Model ----
(***************************************************************************)
(* Model of the alchemy-webhook Cloud Function: the ERC20 Transfer parser  *)
(* (parser.go), the Firestore batch writer (firestore.go), the Pub/Sub     *)
(* publisher (pubsub.go) and the HTTP handler (function.go).               *)
(*                                                                         *)
(* Go strings that are formatted or compared character by character are    *)
(* sequences of one-character strings; Go slices are 1-based sequences,    *)
(* so the Go index i addresses element i + 1.                              *)
(***************************************************************************)
EXTENDS Integers, Sequences, FiniteSets, TLC

VARIABLES
    idArgs,     \* GetDocumentID: the two argument pairs under comparison
    idKeys,     \* GetDocumentID: the two keys returned (<<>> before the call)
    webhook,    \* the decoded WebhookEvent
    ret,        \* parser: the last call and what it returned
    transfers,  \* writer: the []*TransferDocument argument
    wpc,        \* writer: position inside WriteBatchTransfers
    start,      \* writer: loop variable start
    tx,         \* writer: writes staged by the running transaction
    store,      \* Firestore collection alchemy_stream: document ID -> document
    werr,       \* writer: value returned by the last invocation
    txLog,      \* history: the transactions run by the current invocation
    issued,     \* history: records of the committed groups, in commit order
    first,      \* history: the store after the first successful invocation
    calls,      \* number of writer invocations started
    committed,  \* history: Document Identity -> its last committed record
    hpc,        \* handler: position inside AlchemyWebhook / handleWebhook
    req,        \* handler: the request being served and the environment
    responses,  \* handler: the HTTP status of every response written so far
    published,  \* Pub/Sub topic: the messages acknowledged
    deliveries, \* number of deliveries of the notification so far
    ppc,        \* publisher: position inside PublishTransfers
    submitted,  \* publisher: messages handed to publisher.Publish by the call
    ack,        \* publisher: the PublishResult ("none" until it is ready)
    perr,       \* publisher: value returned by the last invocation
    pcalls,     \* number of PublishTransfers invocations started
    ctx         \* the caller's context.Context: "live" or "done"

vars == <<idArgs, idKeys, webhook, ret, transfers, wpc, start, tx, store,
          werr, txLog, issued, first, calls, committed, hpc, req, responses,
          published, deliveries, ppc, submitted, ack, perr, pcalls, ctx>>

idVars     == <<idArgs, idKeys>>
parseVars  == <<ret>>
writerVars == <<transfers, wpc, start, tx, store, werr, txLog, issued,
                first, calls, committed>>
publisherVars == <<ppc, submitted, ack, perr, pcalls>>
handlerVars == <<hpc, req, responses, published, deliveries, publisherVars,
                 ctx>>

-----------------------------------------------------------------------------
(* Bounds of the model.                                                    *)

MaxPos == 11        \* log positions range over -MaxPos .. MaxPos
MaxHashLen == 2      \* transaction hashes of at most this many characters
MaxLogs == 3         \* log entries per notification in the parser model
MaxLen == 1200       \* longest record sequence handed to the writer
MaxCalls == 2        \* invocations of the writer on the same sequence
MaxDeliveries == 2   \* deliveries of the same notification to the handler
MaxEntries == 2      \* log entries per notification in the handler model

-----------------------------------------------------------------------------
(* fmt.Sprintf("%d", n)                                                    *)

Digit == <<"0", "1", "2", "3", "4", "5", "6", "7", "8", "9">>

RECURSIVE Digits(_)
Digits(n) == IF n < 10 THEN <<Digit[n + 1]>>
             ELSE Digits(n \div 10) \o <<Digit[(n % 10) + 1]>>

Itoa(n) == IF n < 0 THEN <<"-">> \o Digits(-n) ELSE Digits(n)

(* GetDocumentID: fmt.Sprintf("%s-%d", txHash, logIndex).                  *)
GetDocumentIDHashOnly(txHash, logIndex) == txHash \o <<"-">>

GetDocumentID(txHash, logIndex) == txHash \o <<"-">> \o Itoa(logIndex)

-----------------------------------------------------------------------------
(* hexToDecimal: strings.TrimPrefix(hex, "0x"), "" -> "0", else base 16.   *)

HexDigits == <<"0", "1", "2", "3", "4", "5", "6", "7", "8", "9",
               "a", "b", "c", "d", "e", "f">>

HexVal(c) == (CHOOSE i \in 1..16 : HexDigits[i] = c) - 1

RECURSIVE HexNum(_)
HexNum(s) == IF s = <<>> THEN 0
             ELSE 16 * HexNum(SubSeq(s, 1, Len(s) - 1)) + HexVal(s[Len(s)])

TrimPrefix0x(s) == IF Len(s) >= 2 /\ s[1] = "0" /\ s[2] = "x"
                   THEN SubSeq(s, 3, Len(s)) ELSE s

hexToDecimal(hex) == LET h == TrimPrefix0x(hex)
                     IN IF h = <<>> THEN <<"0">> ELSE Itoa(HexNum(h))

-----------------------------------------------------------------------------
(* The parser.                                                             *)

TransferSig == "0xddf252ad"   \* keccak256("Transfer(address,address,uint256)")
ApprovalSig == "0x8c5be1e5"   \* keccak256("Approval(address,address,uint256)")

None == [none |-> TRUE]

(* common.HexToAddress(topic).Hex(): the low 20 bytes, checksummed.        *)
HexToAddress(topic) == <<"addr", topic>>

(* parsedTransferABI.UnpackIntoInterface(&decoded, "Transfer", data): one  *)
(* uint256 is read from the first 32-byte word; shorter data is an error.  *)
UnpackOK(data) == data.nbytes >= 32

Logs(w) == w.logs

MinTopics == 3

TopicsTooFewAt(log, n) == Len(log.topics) < n

TopicsTooFewOff(log) == TopicsTooFewAt(log, MinTopics + 1)

TopicsTooFew(log) == TopicsTooFewAt(log, MinTopics)

BuildDocument(w, log) ==
    [block       |-> w.block,
     transaction |-> [hash  |-> log.txHash,
                      value |-> hexToDecimal(log.txValue)],
     transfer    |-> [contract |-> log.account,
                      from     |-> HexToAddress(log.topics[2]),
                      to       |-> HexToAddress(log.topics[3]),
                      value    |-> log.data.value,
                      logIndex |-> log.index],
     network     |-> w.network,
     alchemy     |-> [webhookId |-> w.webhookId, eventId |-> w.id]]

(* parseLogEntry / ParseTransferEvent.  A negative index passes the guard  *)
(* index >= len(logs) and logs[index] then panics at run time.             *)
parseLogEntry(w, index) ==
    IF index >= Len(Logs(w))
    THEN [doc |-> None, err |-> "log index out of range"]
    ELSE IF index < 0
    THEN [doc |-> None, err |-> "panic: index out of range"]
    ELSE LET log == Logs(w)[index + 1]
         IN IF TopicsTooFew(log)
            THEN [doc |-> None, err |-> "invalid topics length"]
            ELSE IF ~UnpackOK(log.data)
            THEN [doc |-> None, err |-> "abi: unpack error"]
            ELSE [doc |-> BuildDocument(w, log), err |-> "nil"]

(* ParseTransferEvents: for i := range logs, skip on error, else append.   *)
PrependDocument(documents, doc) == <<doc>> \o documents

AppendDocument(documents, doc) == Append(documents, doc)

RECURSIVE ParseLoop(_, _, _)
ParseLoop(w, i, documents) ==
    IF i >= Len(Logs(w)) THEN documents
    ELSE LET r == parseLogEntry(w, i)
         IN IF r.err # "nil"
            THEN ParseLoop(w, i + 1, documents)
            ELSE ParseLoop(w, i + 1, AppendDocument(documents, r.doc))

ParseTransferEvents(w) == [documents |-> ParseLoop(w, 0, <<>>), err |-> "nil"]

-----------------------------------------------------------------------------
(* Inputs.                                                                 *)

SeqsUpTo(S, n) == UNION {[1..m -> S] : m \in 0..n}

HashAlphabet == {"a", "-"}

IdPairs == {[hash |-> h, pos |-> p] :
                h \in SeqsUpTo(HashAlphabet, MaxHashLen), p \in -MaxPos..MaxPos}

TopicLists == {<<>>,
               <<TransferSig, "0xfrom">>,
               <<TransferSig, "0xfrom", "0xto">>,
               <<ApprovalSig, "0xfrom", "0xto">>}

DataValues == {[nbytes |-> 0, value |-> 0], [nbytes |-> 32, value |-> 7]}

LogKinds == {[data |-> d, topics |-> t, index |-> i, account |-> "0xtoken",
              txHash |-> <<"a">>, txValue |-> <<"0", "x">>] :
                d \in DataValues, t \in TopicLists, i \in 0..1}

WebhookOf(logs) == [webhookId |-> "wh_1", id |-> "whevt_1",
                    network |-> "ETH_MAINNET",
                    block |-> [hash |-> "0xblock", number |-> 1],
                    logs |-> logs]

ParserWebhooks == {WebhookOf(l) : l \in SeqsUpTo(LogKinds, MaxLogs)}

NoWebhook == WebhookOf(<<>>)

NoRet == [fn |-> "none"]

-----------------------------------------------------------------------------
(* Values of the variables a specification does not use.                   *)

IdIdle == /\ idArgs = <<>>
          /\ idKeys = <<>>

ParseIdle == ret = NoRet

WriterIdle == /\ transfers = <<>>
              /\ wpc = "idle"
              /\ start = 0
              /\ tx = <<>>
              /\ store = <<>>
              /\ werr = "none"
              /\ txLog = <<>>
              /\ issued = <<>>
              /\ first = None
              /\ calls = 0
              /\ committed = <<>>

PublisherIdle == /\ ppc = "idle"
                 /\ submitted = <<>>
                 /\ ack = "none"
                 /\ perr = "none"
                 /\ pcalls = 0
                 /\ ctx = "live"

HandlerIdle == /\ hpc = "idle"
               /\ req = None
               /\ responses = <<>>
               /\ published = <<>>
               /\ deliveries = 0
               /\ PublisherIdle

-----------------------------------------------------------------------------
(* SpecId: GetDocumentID applied to two argument pairs.                    *)

InitId == /\ idArgs \in IdPairs \X IdPairs
          /\ idKeys = <<>>
          /\ webhook = NoWebhook
          /\ ParseIdle
          /\ WriterIdle
          /\ HandlerIdle

CallGetDocumentID ==
    /\ idArgs # <<>>
    /\ idKeys = <<>>
    /\ idKeys' = <<GetDocumentID(idArgs[1].hash, idArgs[1].pos),
                   GetDocumentID(idArgs[2].hash, idArgs[2].pos)>>
    /\ UNCHANGED <<idArgs, webhook, parseVars, writerVars, handlerVars>>

NextId == CallGetDocumentID

SpecId == InitId /\ [][NextId]_vars

-----------------------------------------------------------------------------
(* SpecParse: the parser applied to one notification.                      *)

InitParse == /\ webhook \in ParserWebhooks
             /\ ret = NoRet
             /\ IdIdle
             /\ WriterIdle
             /\ HandlerIdle

CallParseTransferEvents ==
    /\ ret = NoRet
    /\ LET r == ParseTransferEvents(webhook)
       IN ret' = [fn |-> "ParseTransferEvents",
                  documents |-> r.documents, err |-> r.err]
    /\ UNCHANGED <<idVars, webhook, writerVars, handlerVars>>

CallParseLogEntry ==
    /\ ret = NoRet
    /\ \E index \in -2..(MaxLogs + 1) :
         LET r == parseLogEntry(webhook, index)
         IN ret' = [fn |-> "parseLogEntry", index |-> index,
                    doc |-> r.doc, err |-> r.err]
    /\ UNCHANGED <<idVars, webhook, writerVars, handlerVars>>

NextParse == CallParseTransferEvents \/ CallParseLogEntry

SpecParse == InitParse /\ [][NextParse]_vars

-----------------------------------------------------------------------------
(* The Firestore writer: WriteBatchTransfers.                              *)

batchLimit == 500

Min(a, b) == IF a < b THEN a ELSE b

(* end := min(start+batchLimit, total)                                     *)
BatchEndOver(s, total) == Min(s + batchLimit + 1, total)

BatchEnd(s, total) == Min(s + batchLimit, total)

(* batch := transfers[start:end]                                           *)
Batch(ts, s) == SubSeq(ts, s + 1, BatchEnd(s, Len(ts)))

(* if err != nil { return err }                                            *)
ErrorSwallowed == FALSE

ErrorReturns == TRUE

(* docRef := client.Collection(collectionName).Doc(docID)                  *)
DocRef(transfer) ==
    GetDocumentID(transfer.transaction.hash, transfer.transfer.logIndex)

(* The Document Identity of a record: its transaction hash and its log     *)
(* position.                                                               *)
Identity(t) == <<t.transaction.hash, t.transfer.logIndex>>

(* The last record of each Document Identity among the writes ws[lo..hi].  *)
RECURSIVE LastByIdentity(_, _, _)
LastByIdentity(ws, lo, hi) ==
    IF lo > hi THEN <<>>
    ELSE IF lo = hi THEN (Identity(ws[lo].doc) :> ws[lo].doc)
    ELSE LET mid == (lo + hi) \div 2
         IN LastByIdentity(ws, mid + 1, hi) @@ LastByIdentity(ws, lo, mid)

(* Commit: the staged writes are applied in order as upserts, all at once. *)
RECURSIVE WriteMap(_, _, _)
WriteMap(ws, lo, hi) ==
    IF lo > hi THEN <<>>
    ELSE IF lo = hi THEN (ws[lo].id :> ws[lo].doc)
    ELSE LET mid == (lo + hi) \div 2
         IN WriteMap(ws, mid + 1, hi) @@ WriteMap(ws, lo, mid)

ApplyWrites(st, ws) == WriteMap(ws, 1, Len(ws)) @@ st

(* for _, transfer := range batch { tx.Set(docRef, transfer) }: the writes *)
(* staged by the first n iterations, in order.                             *)
StagedWrites(batch, n) ==
    [i \in 1..n |-> [id |-> DocRef(batch[i]), doc |-> batch[i]]]

(* tx.Set only stages a write inside the transaction: while writes are     *)
(* staged the store stays as it is, and only the commit touches it.        *)
StoreWrittenThrough(st, writes) == ApplyWrites(st, writes)

StoreWhileStaged(st, writes) == st

(* for start := 0; start < total; start += batchLimit                      *)
SameStart(s) == s

NextStart(s) == s + batchLimit

(* client.RunTransaction(ctx, ...) and result.Get(ctx) are handed the      *)
(* caller's context: they complete with success only while it is not done.*)
CtxLive == ctx = "live"

SetLast(log, outcome, n) ==
    [log EXCEPT ![Len(log)] = [@ EXCEPT !.outcome = outcome, !.n = n]]

(* WriteBatchTransfers is entered.                                         *)
EnterWriter(ts) ==
    /\ transfers' = ts
    /\ wpc' = "open"
    /\ start' = 0
    /\ tx' = <<>>
    /\ werr' = "none"
    /\ txLog' = <<>>
    /\ issued' = <<>>
    /\ calls' = calls + 1
    /\ UNCHANGED <<store, first, committed>>

(* client, err := f.app.Firestore(ctx) succeeds.                           *)
ClientOK ==
    /\ wpc = "open"
    /\ wpc' = "loop"
    /\ UNCHANGED <<idVars, webhook, parseVars, handlerVars, committed,
                   transfers, start,
                   tx, store, werr, txLog, issued, first, calls>>

(* client, err := f.app.Firestore(ctx) fails: return err.                  *)
ClientFail ==
    /\ wpc = "open"
    /\ wpc' = "returned"
    /\ werr' = "err"
    /\ UNCHANGED <<idVars, webhook, parseVars, handlerVars, committed,
                   transfers, start,
                   tx, store, txLog, issued, first, calls>>

(* Loop test true: the next batch is cut and client.RunTransaction begins. *)
BeginTransaction ==
    /\ wpc = "loop"
    /\ start < Len(transfers)
    /\ wpc' = "tx"
    /\ tx' = <<>>
    /\ txLog' = Append(txLog, [start   |-> start,
                               end     |-> BatchEnd(start, Len(transfers)),
                               n       |-> 0,
                               outcome |-> "running"])
    /\ UNCHANGED <<idVars, webhook, parseVars, handlerVars, committed,
                   transfers, start,
                   store, werr, issued, first, calls>>

(* Loop test false: "all batches written", return nil.                     *)
ReturnNil ==
    /\ wpc = "loop"
    /\ start >= Len(transfers)
    /\ wpc' = "returned"
    /\ werr' = "nil"
    /\ first' = IF calls = 1 THEN store ELSE first
    /\ UNCHANGED <<idVars, webhook, parseVars, handlerVars, committed,
                   transfers, start,
                   tx, store, txLog, issued, calls>>

(* The transaction function runs its range loop to the end: every tx.Set  *)
(* of the batch succeeds and the function returns nil.                     *)
TxFunction ==
    /\ wpc = "tx"
    /\ LET batch == Batch(transfers, start)
           writes == StagedWrites(batch, Len(batch))
       IN /\ tx' = writes
          /\ store' = StoreWhileStaged(store, writes)
    /\ wpc' = "commit"
    /\ UNCHANGED <<idVars, webhook, parseVars, handlerVars, committed,
                   transfers, start,
                   werr, txLog, issued, first, calls>>

(* The group's transaction ends in an error after n records were staged:   *)
(* nothing staged is applied and the loop is left by `return err`.         *)
GroupFailed(n) ==
    /\ tx' = <<>>
    /\ txLog' = SetLast(txLog, "failed", n)
    /\ IF ErrorReturns
       THEN /\ wpc' = "returned"
            /\ werr' = "err"
            /\ start' = start
       ELSE /\ wpc' = "loop"
            /\ werr' = werr
            /\ start' = NextStart(start)
    /\ UNCHANGED <<idVars, webhook, parseVars, handlerVars, committed,
                   transfers,
                   issued, first, calls>>

(* tx.Set returns an error on record j of the batch, after j - 1 records   *)
(* were staged: the function returns it and the transaction is rolled      *)
(* back.                                                                   *)
TxSetFail ==
    /\ wpc = "tx"
    /\ LET batch == Batch(transfers, start)
       IN \E j \in 1..Len(batch) :
              /\ store' = StoreWhileStaged(store, StagedWrites(batch, j - 1))
              /\ GroupFailed(j - 1)

(* The function returned nil but the commit is rejected.                   *)
TxCommitFail ==
    /\ wpc = "commit"
    /\ UNCHANGED store
    /\ GroupFailed(Len(tx))

(* The function returned nil and the commit succeeds: every staged write   *)
(* is applied; "batch written"; start += batchLimit.                       *)
TxCommit ==
    /\ wpc = "commit"
    /\ CtxLive
    /\ store' = ApplyWrites(store, tx)
    /\ issued' = issued \o [i \in 1..Len(tx) |-> tx[i].doc]
    /\ committed' = LastByIdentity(tx, 1, Len(tx)) @@ committed
    /\ txLog' = SetLast(txLog, "committed", Len(tx))
    /\ tx' = <<>>
    /\ start' = NextStart(start)
    /\ wpc' = "loop"
    /\ UNCHANGED <<idVars, webhook, parseVars, handlerVars, transfers,
                   werr, first, calls>>

WriterStep == \/ ClientOK
              \/ ClientFail
              \/ BeginTransaction
              \/ ReturnNil
              \/ TxFunction
              \/ TxSetFail
              \/ TxCommitFail
              \/ TxCommit

-----------------------------------------------------------------------------
(* SpecWriter: WriteBatchTransfers invoked on generated record sequences.  *)

Lens == {0, 1, 2, batchLimit, batchLimit + 1, MaxLen}

BulkInputs == {[n |-> n, pat |-> "distinct"] : n \in Lens}
                  \cup {[n |-> batchLimit + 1, pat |-> "wrap"]}

(* Record i of a generated sequence, reduced to the fields the writer      *)
(* reads and the transferred amount.  "distinct": one log position per     *)
(* record; "wrap": positions repeat after batchLimit records, so records   *)
(* of different groups share a Document Identity.                          *)
BulkDoc(i, pat) ==
    [transaction |-> [hash |-> <<"a">>],
     transfer    |-> [value    |-> i,
                      logIndex |-> IF pat = "distinct" THEN i - 1
                                   ELSE (i - 1) % batchLimit]]

BulkTransfers(n, pat) == [i \in 1..n |-> BulkDoc(i, pat)]

(* Documents already in the collection: an older version of record 1 and   *)
(* a document of another transaction.                                      *)
StaleDoc == [BulkDoc(1, "distinct") EXCEPT !.transfer.value = 0]

OtherDoc == [BulkDoc(1, "distinct") EXCEPT !.transaction.hash = <<"b">>]

InitialStore == (DocRef(StaleDoc) :> StaleDoc) @@ (DocRef(OtherDoc) :> OtherDoc)

InitWriter == /\ transfers \in {BulkTransfers(b.n, b.pat) : b \in BulkInputs}
              /\ wpc = "idle"
              /\ start = 0
              /\ tx = <<>>
              /\ store = InitialStore
              /\ werr = "none"
              /\ txLog = <<>>
              /\ issued = <<>>
              /\ first = None
              /\ calls = 0
              /\ committed = <<>>
              /\ webhook = NoWebhook
              /\ IdIdle
              /\ ParseIdle
              /\ HandlerIdle

(* The caller invokes WriteBatchTransfers, the first time or again (a      *)
(* retry or a redelivery) with the same sequence.                          *)
Invoke ==
    /\ wpc \in {"idle", "returned"}
    /\ calls < MaxCalls
    /\ EnterWriter(transfers)
    /\ UNCHANGED <<idVars, webhook, parseVars, handlerVars>>

NextWriter == Invoke \/ WriterStep

SpecWriter == InitWriter /\ [][NextWriter]_vars

-----------------------------------------------------------------------------
(* SpecStore: WriteBatchTransfers invoked again and again on short record  *)
(* sequences that overlap: redeliveries, notifications that reference the  *)
(* same log entry, one identity twice in a sequence.  Hash and log         *)
(* position are whatever the notification's JSON holds (a string, an int). *)

StoreDoc(h, p, v) == [transaction |-> [hash |-> h],
                      transfer    |-> [value |-> v, logIndex |-> p]]

StoreDocs == {StoreDoc(<<>>, -MaxPos, 1),
              StoreDoc(<<"-">>, MaxPos, 2),
              StoreDoc(<<"a">>, 1, 3),
              StoreDoc(<<"a">>, 1, 4),
              StoreDoc(<<"a">>, 2, 5)}

InitStore == /\ WriterIdle
             /\ webhook = NoWebhook
             /\ IdIdle
             /\ ParseIdle
             /\ HandlerIdle

InvokeStore ==
    /\ wpc \in {"idle", "returned"}
    /\ calls < MaxCalls
    /\ \E ts \in SeqsUpTo(StoreDocs, MaxEntries) : EnterWriter(ts)
    /\ UNCHANGED <<idVars, webhook, parseVars, handlerVars>>

NextStore == InvokeStore \/ WriterStep

SpecStore == InitStore /\ [][NextStore]_vars

-----------------------------------------------------------------------------
(* The Pub/Sub publisher: PublishTransfers.                                *)

(* json.Marshal(transfers): Transfer.MarshalJSON writes the amount as a    *)
(* decimal string.                                                         *)
MarshalDocument(doc) ==
    [doc EXCEPT !.transfer.value = Itoa(doc.transfer.value)]

Marshal(ts) == [i \in 1..Len(ts) |-> MarshalDocument(ts[i])]

AttributesCountOnly(ts) == [count |-> Itoa(Len(ts))]

Attributes(ts) ==
    IF Len(ts) > 0
    THEN [webhook_id |-> ts[1].alchemy.webhookId,
          event_id   |-> ts[1].alchemy.eventId,
          network    |-> ts[1].network,
          count      |-> Itoa(Len(ts))]
    ELSE [count |-> <<"0">>]

Message(ts) == [data |-> Marshal(ts), attributes |-> Attributes(ts)]

(* p.publisher.Publish(ctx, &pubsub.Message{...}): one message per call.   *)
MessagePerTransfer(ts) == [i \in 1..Len(ts) |-> Message(<<ts[i]>>)]

MessagesOf(ts) == <<Message(ts)>>

(* messageID, err := result.Get(ctx); if err != nil { return err }.        *)
GetResultIgnored(a) == "nil"

GetResult(a) == IF a = "ok" THEN "nil" ELSE "err"

(* PublishTransfers is entered: the payload and the attributes are built,  *)
(* p.publisher.Publish is called and result.Get(ctx) blocks.               *)
EnterPublisher(ts) ==
    /\ ppc' = "inflight"
    /\ submitted' = MessagesOf(ts)
    /\ ack' = "none"
    /\ perr' = "none"
    /\ pcalls' = pcalls + 1

(* The topic accepts what was submitted: the result becomes ready with a   *)
(* message ID.  A message whose Get was abandoned is still in the          *)
(* publisher's bundle and may be accepted until the publisher is stopped.  *)
QueueAck ==
    /\ ppc \in {"inflight", "returned"}
    /\ hpc \in {"idle", "publishing"}
    /\ ack = "none"
    /\ ack' = "ok"
    /\ published' = published \o submitted
    /\ UNCHANGED <<idVars, webhook, parseVars, writerVars, hpc, req,
                   responses, deliveries, ppc, submitted, perr, pcalls, ctx>>

(* The topic rejects the message: the result becomes ready with an error.  *)
QueueNack ==
    /\ ppc = "inflight"
    /\ ack = "none"
    /\ ack' = "err"
    /\ UNCHANGED <<idVars, webhook, parseVars, writerVars, hpc, req,
                   responses, published, deliveries, ppc, submitted, perr,
                   pcalls, ctx>>

(* result.Get(ctx) returns the ready result; PublishTransfers returns.     *)
GetReturns ==
    /\ ppc = "inflight"
    /\ ack # "none"
    /\ CtxLive
    /\ perr' = GetResult(ack)
    /\ ppc' = "returned"
    /\ UNCHANGED <<idVars, webhook, parseVars, writerVars, hpc, req,
                   responses, published, deliveries, submitted, ack, pcalls,
                   ctx>>

(* result.Get(ctx) is woken by ctx.Done(): PublishTransfers returns        *)
(* ctx.Err().                                                              *)
GetCancelled ==
    /\ ppc = "inflight"
    /\ ~CtxLive
    /\ perr' = "err"
    /\ ppc' = "returned"
    /\ UNCHANGED <<idVars, webhook, parseVars, writerVars, hpc, req,
                   responses, published, deliveries, submitted, ack, pcalls,
                   ctx>>

PublisherStep == \/ QueueAck
                 \/ QueueNack
                 \/ GetReturns
                 \/ GetCancelled

(* The caller's context is cancelled, or its deadline expires, while the   *)
(* writer is inside RunTransaction or the publisher is blocked in Get.     *)
Blocked == \/ wpc \in {"tx", "commit"}
           \/ ppc = "inflight" /\ ack = "none"

Cancel ==
    /\ CtxLive
    /\ Blocked
    /\ ctx' = "done"
    /\ UNCHANGED <<idVars, webhook, parseVars, writerVars, hpc, req,
                   responses, published, deliveries, publisherVars>>

-----------------------------------------------------------------------------
(* SpecCore: a caller that invokes one of PublishTransfers and             *)
(* WriteBatchTransfers directly, once or again, and supplies the record    *)
(* sequence and the context.                                               *)

CoreLens == {0, 1, 2, batchLimit, batchLimit + 1}

CoreWebhooks == {WebhookOf(<<>>),
                 [WebhookOf(<<>>) EXCEPT !.webhookId = "wh_2",
                                         !.id = "whevt_2",
                                         !.network = "ETH_SEPOLIA"]}

(* Log entry i of a notification whose entries are all Transfer events.    *)
CoreLog(i) == [data |-> [nbytes |-> 32, value |-> i],
               topics |-> <<TransferSig, "0xfrom", "0xto">>,
               index |-> i - 1, account |-> "0xtoken",
               txHash |-> <<"a">>, txValue |-> <<"0", "x">>]

(* What ParseTransferEvents extracts from a notification of n such         *)
(* entries.                                                                *)
CoreTransfers(w, n) == [i \in 1..n |-> BuildDocument(w, CoreLog(i))]

InitCore == /\ webhook \in CoreWebhooks
            /\ transfers \in {CoreTransfers(webhook, n) : n \in CoreLens}
            /\ wpc = "idle"
            /\ start = 0
            /\ tx = <<>>
            /\ store = <<>>
            /\ werr = "none"
            /\ txLog = <<>>
            /\ issued = <<>>
            /\ first = None
            /\ calls = 0
            /\ committed = <<>>
            /\ IdIdle
            /\ ParseIdle
            /\ HandlerIdle

(* The caller invokes PublishTransfers(ctx, transfers).                    *)
InvokePublish ==
    /\ ppc \in {"idle", "returned"}
    /\ calls = 0
    /\ pcalls < MaxCalls
    /\ EnterPublisher(transfers)
    /\ ctx' = "live"
    /\ UNCHANGED <<idVars, webhook, parseVars, writerVars, hpc, req,
                   responses, published, deliveries>>

(* The caller invokes WriteBatchTransfers(ctx, transfers).                 *)
InvokeWrite ==
    /\ wpc \in {"idle", "returned"}
    /\ pcalls = 0
    /\ calls < MaxCalls
    /\ EnterWriter(transfers)
    /\ ctx' = "live"
    /\ UNCHANGED <<idVars, webhook, parseVars, hpc, req, responses,
                   published, deliveries, publisherVars>>

NextCore == \/ InvokePublish
            \/ InvokeWrite
            \/ PublisherStep
            \/ WriterStep
            \/ Cancel

SpecCore == InitCore /\ [][NextCore]_vars

-----------------------------------------------------------------------------
(* The HTTP handler: AlchemyWebhook and handleWebhook.                     *)

Respond(code) == /\ responses' = Append(responses, code)
                 /\ hpc' = "responded"

(* Where handleWebhook goes once the publish step is over or disabled.     *)
AfterPublish == IF req.firestore THEN "write" ELSE "ok"

AfterParse == IF req.pubsub THEN "publish" ELSE AfterPublish

(* if !verifySignature(body, signature, []byte(signingKey))                *)
SignatureUnchecked(r) == TRUE

SignatureOK(r) == r.sigValid

(* if len(transfers) == 0 { w.WriteHeader(http.StatusOK); return }         *)
EmptyIsAnError == FALSE

EmptyIsSuccess == TRUE

(* http.Error(w, ..., http.StatusInternalServerError) on a failed side     *)
(* effect, w.WriteHeader(http.StatusOK) otherwise.                         *)
StatusAlwaysOK(err) == 200

StatusOf(err) == IF err = "nil" THEN 200 ELSE 500

(* if err := publishToPubSub(ctx, transfers); err != nil { ...; return }   *)
PublishFailureContinues == FALSE

PublishFailureStops == TRUE

(* A delivery arrives, the first one or the sender delivering the same     *)
(* notification again, with a request context of its own.                  *)
Arrives == /\ hpc \in {"idle", "responded"}
           /\ deliveries < MaxDeliveries
           /\ deliveries' = deliveries + 1
           /\ ppc' = "idle"
           /\ submitted' = <<>>
           /\ ack' = "none"
           /\ perr' = "none"
           /\ ctx' = "live"
           /\ UNCHANGED pcalls

(* ALCHEMY_SIGNING_KEY is not set: 500.                                    *)
RejectNoKey ==
    /\ Arrives
    /\ ~req.keySet
    /\ Respond(500)
    /\ UNCHANGED <<idVars, webhook, parseVars, writerVars, req, published>>

(* io.ReadAll(r.Body) fails: 500.                                          *)
BodyReadFail ==
    /\ Arrives
    /\ req.keySet
    /\ ~req.bodyOK
    /\ Respond(500)
    /\ UNCHANGED <<idVars, webhook, parseVars, writerVars, req, published>>

(* verifySignature is false: 403.                                          *)
RejectSignature ==
    /\ Arrives
    /\ req.keySet
    /\ req.bodyOK
    /\ ~SignatureOK(req)
    /\ Respond(403)
    /\ UNCHANGED <<idVars, webhook, parseVars, writerVars, req, published>>

(* parseWebhookEvent fails: 400.                                           *)
RejectJSON ==
    /\ Arrives
    /\ req.keySet
    /\ req.bodyOK
    /\ SignatureOK(req)
    /\ ~req.jsonValid
    /\ Respond(400)
    /\ UNCHANGED <<idVars, webhook, parseVars, writerVars, req, published>>

(* handleWebhook: ParseTransferEvents, then 400 on its error, 200 on an    *)
(* empty result, else on to the enabled side effects.                      *)
Accept ==
    /\ Arrives
    /\ req.keySet
    /\ req.bodyOK
    /\ SignatureOK(req)
    /\ req.jsonValid
    /\ LET r == ParseTransferEvents(webhook)
       IN /\ transfers' = r.documents
          /\ IF r.err # "nil" THEN Respond(400)
             ELSE IF Len(r.documents) = 0
             THEN Respond(IF EmptyIsSuccess THEN 200 ELSE 400)
             ELSE IF AfterParse = "ok" THEN Respond(200)
             ELSE /\ hpc' = AfterParse
                  /\ UNCHANGED responses
    /\ UNCHANGED <<idVars, webhook, parseVars, req, published, wpc, start, tx,
                   store, werr, txLog, issued, first, calls, committed>>

(* publishToPubSub: NewPubSubPublisher fails: 500.                         *)
PublisherCreateFail ==
    /\ hpc = "publish"
    /\ Respond(500)
    /\ UNCHANGED <<idVars, webhook, parseVars, writerVars, req, published,
                   deliveries, publisherVars, ctx>>

(* publishToPubSub: publisher.PublishTransfers(ctx, transfers) is called.  *)
StartPublish ==
    /\ hpc = "publish"
    /\ hpc' = "publishing"
    /\ EnterPublisher(transfers)
    /\ UNCHANGED <<idVars, webhook, parseVars, writerVars, req, responses,
                   published, deliveries, ctx>>

(* PublishTransfers has returned and the deferred Close has stopped the    *)
(* publisher: 500 on an error, else on to the store write or 200.          *)
PublishReturned ==
    /\ hpc = "publishing"
    /\ ppc = "returned"
    /\ IF perr # "nil" /\ PublishFailureStops THEN Respond(500)
       ELSE IF AfterPublish = "ok" THEN Respond(200)
       ELSE /\ hpc' = AfterPublish
            /\ UNCHANGED responses
    /\ UNCHANGED <<idVars, webhook, parseVars, writerVars, req, published,
                   deliveries, publisherVars, ctx>>

(* writeToFirestore: NewFirestoreWriter fails: 500.                        *)
WriterCreateFail ==
    /\ hpc = "write"
    /\ Respond(500)
    /\ UNCHANGED <<idVars, webhook, parseVars, writerVars, req, published,
                   deliveries, publisherVars, ctx>>

(* writeToFirestore: writer.WriteBatchTransfers(ctx, transfers) is called. *)
StartWrite ==
    /\ hpc = "write"
    /\ hpc' = "writing"
    /\ EnterWriter(transfers)
    /\ UNCHANGED <<idVars, webhook, parseVars, req, responses, published,
                   deliveries, publisherVars, ctx>>

(* WriteBatchTransfers has returned: 500 on an error, else 200.            *)
WriteReturned ==
    /\ hpc = "writing"
    /\ wpc = "returned"
    /\ Respond(StatusOf(werr))
    /\ UNCHANGED <<idVars, webhook, parseVars, writerVars, req, published,
                   deliveries, publisherVars, ctx>>

(* Entries of the notifications served: Transfer entries that decode, and  *)
(* one entry the extractor skips.                                          *)
SkippedLogKind == CHOOSE l \in LogKinds : /\ l.topics = <<>>
                                          /\ l.data.nbytes = 32
                                          /\ l.index = 0

HandlerLogKinds == {l \in LogKinds : /\ l.data.nbytes = 32
                                     /\ l.topics # <<>>
                                     /\ l.topics[1] = TransferSig}

HandlerWebhooks ==
    {WebhookOf(l) : l \in SeqsUpTo(HandlerLogKinds, MaxEntries)}
        \cup {WebhookOf(<<SkippedLogKind>>),
              WebhookOf(<<SkippedLogKind, SkippedLogKind>>)}

Requests == [keySet : BOOLEAN, bodyOK : BOOLEAN, sigValid : BOOLEAN,
             jsonValid : BOOLEAN, pubsub : BOOLEAN, firestore : BOOLEAN]

Init == /\ webhook \in HandlerWebhooks
        /\ req \in Requests
        /\ hpc = "idle"
        /\ responses = <<>>
        /\ published = <<>>
        /\ deliveries = 0
        /\ PublisherIdle
        /\ IdIdle
        /\ ParseIdle
        /\ WriterIdle

Next == \/ RejectNoKey
        \/ BodyReadFail
        \/ RejectSignature
        \/ RejectJSON
        \/ Accept
        \/ PublisherCreateFail
        \/ StartPublish
        \/ PublisherStep
        \/ PublishReturned
        \/ WriterCreateFail
        \/ StartWrite
        \/ WriterStep
        \/ WriteReturned
        \/ Cancel

Spec == Init /\ [][Next]_vars

-----------------------------------------------------------------------------
(* Claims about WriteBatchTransfers (SpecWriter).                          *)

Ceil(a, b) == (a + b - 1) \div b

Range(f) == {f[i] : i \in DOMAIN f}

WriterSucceeded == wpc = "returned" /\ werr = "nil"

WriterFailed == wpc = "returned" /\ werr = "err"

GroupSizes == [i \in 1..Len(txLog) |-> txLog[i].n]

\* C1: a successful invocation on L records has run exactly ceil(L/500)
\* transactions, each staging at most 500 records, the groups are
\* contiguous slices that follow one another from 0 to L, and the committed
\* groups concatenated in commit order are the input sequence (L = 1200:
\* groups of 500, 500, 200).
C1_BatchPartition ==
    /\ Len(tx) <= batchLimit
    /\ WriterSucceeded =>
           LET L == Len(transfers)
               m == Len(txLog)
           IN /\ m = Ceil(L, batchLimit)
              /\ \A i \in 1..m :
                     /\ txLog[i].outcome = "committed"
                     /\ txLog[i].n >= 1
                     /\ txLog[i].n <= batchLimit
                     /\ txLog[i].n = txLog[i].end - txLog[i].start
                     /\ txLog[i].start = IF i = 1 THEN 0 ELSE txLog[i - 1].end
              /\ (m > 0 => txLog[m].end = L)
              /\ issued = transfers
              /\ (L = 1200 => GroupSizes = <<500, 500, 200>>)
              /\ (L = 0 => txLog = <<>>)
              /\ (L = batchLimit => GroupSizes = <<batchLimit>>)

C1_Witness ==
    /\ WriterSucceeded
    /\ Len(transfers) = 1200
    /\ GroupSizes = <<500, 500, 200>>
    /\ issued = transfers

\* C2: the i-th transaction of an invocation is group i; every transaction
\* before the last one is committed; when a group's transaction has failed
\* it is the last one started, the invocation has returned an error, the
\* records of the groups before it are in the store and only they were
\* committed.
C2_CommittedPrefix ==
    LET m == Len(txLog)
        done == (m - 1) * batchLimit
    IN /\ \A i \in 1..m : txLog[i].start = (i - 1) * batchLimit
       /\ \A i \in 1..(m - 1) : txLog[i].outcome = "committed"
       /\ (m > 0 /\ txLog[m].outcome = "failed") =>
              /\ WriterFailed
              /\ issued = SubSeq(transfers, 1, done)
              /\ \A j \in 1..done :
                     LET id == DocRef(transfers[j])
                     IN /\ id \in DOMAIN store
                        /\ \E j2 \in j..done : /\ DocRef(transfers[j2]) = id
                                               /\ store[id] = transfers[j2]

C2_Witness ==
    /\ WriterFailed
    /\ calls = 1
    /\ Len(transfers) = 1200
    /\ Len(txLog) = 3
    /\ txLog[1].outcome = "committed"
    /\ txLog[2].outcome = "committed"
    /\ txLog[3].outcome = "failed"
    /\ DocRef(transfers[1000]) \in DOMAIN store
    /\ DocRef(transfers[1001]) \notin DOMAIN store

\* C3: the store changes only in the commit of a completely staged group,
\* and that step makes every record of the group visible at once and
\* touches no other document; staging, a failed tx.Set and a failed commit
\* leave the store as it was.
C3_GroupAtomic ==
    [][store' # store =>
          LET last == BatchEnd(start, Len(transfers))
              keys == {DocRef(transfers[j]) : j \in (start + 1)..last}
          IN /\ wpc = "commit"
             /\ wpc' = "loop"
             /\ Len(tx) = last - start
             /\ \A j \in (start + 1)..last :
                    LET id == DocRef(transfers[j])
                    IN /\ id \in DOMAIN store'
                       /\ \E j2 \in j..last : /\ DocRef(transfers[j2]) = id
                                              /\ store'[id] = transfers[j2]
             /\ DOMAIN store' = DOMAIN store \cup keys
             /\ \A id \in DOMAIN store \ keys : store'[id] = store[id]]_vars

C3_Witness ==
    /\ WriterFailed
    /\ calls = 1
    /\ Len(txLog) = 1
    /\ txLog[1].outcome = "failed"
    /\ txLog[1].n = batchLimit - 1
    /\ store = InitialStore

\* C4: when the first invocation succeeded and a later invocation on the
\* same sequence succeeds too, the store is exactly what it was after the
\* first: it holds one document per distinct Document Identity of the
\* sequence (N documents for N records of distinct identity), every record's
\* identity is stored, nothing was added and no value changed.
C4_RewriteIsNoOp ==
    (WriterSucceeded /\ calls >= 2 /\ first # None) =>
        /\ store = first
        /\ Cardinality({id \in DOMAIN store : store[id] \in Range(transfers)})
               = Cardinality({Identity(t) : t \in Range(transfers)})
        /\ {Identity(t) : t \in Range(transfers)}
               \subseteq {Identity(store[id]) : id \in DOMAIN store}

C4_Witness ==
    /\ WriterSucceeded
    /\ calls = 2
    /\ first # None
    /\ Len(transfers) = batchLimit + 1
    /\ transfers[batchLimit + 1].transfer.logIndex = batchLimit
    /\ Cardinality(DOMAIN store) = batchLimit + 2
    /\ store = first

-----------------------------------------------------------------------------
(* Claims about GetDocumentID (SpecId).                                    *)

DigitVal(c) == (CHOOSE i \in 1..10 : Digit[i] = c) - 1

IsDigit(c) == \E i \in 1..10 : Digit[i] = c

RECURSIVE ParseNat(_)
ParseNat(s) == IF s = <<>> THEN 0
               ELSE 10 * ParseNat(SubSeq(s, 1, Len(s) - 1)) + DigitVal(s[Len(s)])

IsDecimal(s) == /\ s # <<>>
                /\ \A i \in 1..Len(s) : IsDigit(s[i])
                /\ (Len(s) > 1 => s[1] # "0")

(* key reads as {transactionHash}-{logPosition}: the hash, the separator,  *)
(* then the position in decimal, read back by a parser of its own.         *)
KeyHasFormat(key, arg) ==
    LET n    == Len(arg.hash)
        rest == SubSeq(key, n + 2, Len(key))
        mag  == IF rest # <<>> /\ rest[1] = "-"
                THEN SubSeq(rest, 2, Len(rest)) ELSE rest
    IN /\ Len(key) >= n + 2
       /\ SubSeq(key, 1, n) = arg.hash
       /\ key[n + 1] = "-"
       /\ IsDecimal(mag)
       /\ arg.pos = (IF mag = rest THEN ParseNat(mag) ELSE -ParseNat(mag))

IdCalled == idKeys # <<>>

\* C6 (as stated): the key has the format {transactionHash}-{logPosition},
\* equal pairs give equal keys, and ANY two pairs that differ in the hash or
\* in the position give different keys.
C6_Original ==
    IdCalled =>
        /\ KeyHasFormat(idKeys[1], idArgs[1])
        /\ KeyHasFormat(idKeys[2], idArgs[2])
        /\ (idArgs[1] = idArgs[2] => idKeys[1] = idKeys[2])
        /\ (idArgs[1] # idArgs[2] => idKeys[1] # idKeys[2])

\* C6 (amended): the key has the format {transactionHash}-{logPosition},
\* equal pairs give equal keys, and two pairs whose log positions are both
\* non-negative and that differ in the hash or the position give
\* different keys.
C6_Amended ==
    IdCalled =>
        /\ KeyHasFormat(idKeys[1], idArgs[1])
        /\ KeyHasFormat(idKeys[2], idArgs[2])
        /\ (idArgs[1] = idArgs[2] => idKeys[1] = idKeys[2])
        /\ (/\ idArgs[1].pos >= 0
            /\ idArgs[2].pos >= 0
            /\ idArgs[1] # idArgs[2]
            => idKeys[1] # idKeys[2])

C6_Witness ==
    /\ IdCalled
    /\ idArgs[1] = [hash |-> <<"a", "-">>, pos |-> 1]
    /\ idArgs[2] = [hash |-> <<"a">>, pos |-> 1]
    /\ idKeys[1] = <<"a", "-", "-", "1">>
    /\ idKeys[2] = <<"a", "-", "1">>

-----------------------------------------------------------------------------
(* Claims about the parser (SpecParse).                                    *)

IndexSeq(n) == [i \in 1..n |-> i - 1]

DecoderAccepts(w, i) == parseLogEntry(w, i).err = "nil"

AcceptedIndices(w) ==
    LET Ok(i) == DecoderAccepts(w, i)
    IN SelectSeq(IndexSeq(Len(Logs(w))), Ok)

ExtractorCalled == ret.fn = "ParseTransferEvents"

DecoderCalled == ret.fn = "parseLogEntry"

\* C7: ParseTransferEvents returns no error and exactly the records of the
\* log entries the decoder accepts, in log-entry order; never more records
\* than entries; an all-skip notification gives the empty sequence.
C7_ExtractorIsOrderedFilter ==
    ExtractorCalled =>
        LET idx == AcceptedIndices(webhook)
        IN /\ ret.err = "nil"
           /\ Len(ret.documents) = Len(idx)
           /\ Len(ret.documents) <= Len(Logs(webhook))
           /\ \A j \in 1..Len(idx) :
                  ret.documents[j] = parseLogEntry(webhook, idx[j]).doc
           /\ (idx = <<>> => ret.documents = <<>>)

C7_Witness ==
    /\ ExtractorCalled
    /\ Len(Logs(webhook)) = 3
    /\ AcceptedIndices(webhook) = <<0, 2>>
    /\ Len(ret.documents) = 2
    /\ ret.documents[1].transfer.logIndex = 1
    /\ ret.documents[2].transfer.logIndex = 0

ShortEntry(log) == Len(log.topics) < 3

LongEntry(log) == ~ShortEntry(log)

TransferShaped(log) == /\ Len(log.topics) >= 3
                       /\ log.topics[1] = TransferSig
                       /\ log.data.nbytes = 32

WithoutShort(w) == [w EXCEPT !.logs = SelectSeq(w.logs, LongEntry)]

\* C8: the decoder fails with "invalid topics length" and no record on every
\* entry with fewer than 3 topics; the extractor reports no error, returns
\* what it returns for the notification with those entries removed, and
\* still emits a record for every transfer-shaped entry.
C8_ShortEntriesSkipped ==
    /\ (DecoderCalled /\ ret.index \in 0..(Len(Logs(webhook)) - 1)
            /\ ShortEntry(Logs(webhook)[ret.index + 1])
        => ret.err = "invalid topics length" /\ ret.doc = None)
    /\ (ExtractorCalled =>
            /\ ret.err = "nil"
            /\ ret.documents = ParseTransferEvents(WithoutShort(webhook)).documents
            /\ Len(ret.documents) >= Len(SelectSeq(Logs(webhook), TransferShaped))
            /\ Len(ret.documents) <= Len(SelectSeq(Logs(webhook), LongEntry)))

C8_Witness ==
    /\ ExtractorCalled
    /\ Len(Logs(webhook)) = 2
    /\ TransferShaped(Logs(webhook)[1])
    /\ Len(Logs(webhook)[2].topics) = 2
    /\ Len(ret.documents) = 1
    /\ ret.err = "nil"

\* C9: a log entry yields a record only if it has at least three topics and
\* its first topic is the Transfer event signature.
C9_OnlyTransferSignature ==
    /\ (DecoderCalled /\ ret.doc # None =>
            /\ Len(Logs(webhook)[ret.index + 1].topics) >= 3
            /\ Logs(webhook)[ret.index + 1].topics[1] = TransferSig)
    /\ (ExtractorCalled =>
            Len(ret.documents) <= Len(SelectSeq(Logs(webhook), TransferShaped)))

\* C10: for every index that addresses no entry (index >= number of
\* entries, or negative) the decoder returns the out-of-range error as a
\* value and no record.
C10_OutOfRangeIsAnError ==
    DecoderCalled /\ ret.index \notin 0..(Len(Logs(webhook)) - 1)
        => ret.err = "log index out of range" /\ ret.doc = None

-----------------------------------------------------------------------------
(* Claims about the handler (Spec).                                        *)

ParsedDocs == ParseTransferEvents(webhook).documents

LastResponse == IF responses = <<>> THEN 0 ELSE responses[Len(responses)]

Responded(code) == hpc = "responded" /\ LastResponse = code

\* C5: however often the identical notification is delivered, and whether
\* or not an earlier delivery failed part-way with a 500, the store holds
\* only documents of the notification's records, each under its
\* {txHash}-{logIndex} key, at most one per Document Identity and all of
\* them after a 200 with persistence enabled; and the queue holds at most
\* one message per delivery, each carrying the notification's whole record
\* sequence.
C5_RedeliveryAddsNothing ==
    LET docs == ParsedDocs
        ids  == {Identity(d) : d \in Range(docs)}
    IN /\ Len(published) <= deliveries
       /\ \A i \in 1..Len(published) :
              /\ Len(published[i].data) = Len(docs)
              /\ \A j \in 1..Len(docs) :
                     Identity(published[i].data[j]) = Identity(docs[j])
       /\ \A id \in DOMAIN store :
              \E j \in 1..Len(docs) :
                  /\ KeyHasFormat(id, [hash |-> docs[j].transaction.hash,
                                       pos  |-> docs[j].transfer.logIndex])
                  /\ store[id] = docs[j]
       /\ Cardinality(DOMAIN store) <= Cardinality(ids)
       /\ (Responded(200) /\ req.firestore /\ docs # <<>>
               => Cardinality(DOMAIN store) = Cardinality(ids))

C5_Witness ==
    /\ responses = <<500, 200>>
    /\ req.pubsub
    /\ req.firestore
    /\ calls = 2
    /\ Len(ParsedDocs) = 2
    /\ Len(published) = 2
    /\ published[1] = published[2]
    /\ Cardinality(DOMAIN store) = 2

-----------------------------------------------------------------------------
(* Claims about PublishTransfers and WriteBatchTransfers invoked directly  *)
(* (SpecCore).                                                             *)

PublisherInvoked == ppc \in {"inflight", "returned"}

AttributeNames == {"webhook_id", "event_id", "network", "count"}

\* C11: once PublishTransfers has been invoked exactly one message has been
\* handed to the topic; its payload has one serialized record per input
\* record, in input order (same identity, the amount printed in decimal);
\* its attributes are the notification's webhook id, event id and network
\* and a decimal count equal to the number of records; and for an empty
\* sequence there is still one message, with no attribute but count = "0".
C11_OneMessagePerInvocation ==
    PublisherInvoked =>
        /\ Len(submitted) = 1
        /\ LET msg == submitted[1]
               n   == Len(transfers)
           IN /\ Len(msg.data) = n
              /\ \A i \in 1..n :
                     /\ Identity(msg.data[i]) = Identity(transfers[i])
                     /\ IsDecimal(msg.data[i].transfer.value)
                     /\ ParseNat(msg.data[i].transfer.value)
                            = transfers[i].transfer.value
                     /\ msg.data[i].alchemy = transfers[i].alchemy
              /\ IF n = 0
                 THEN /\ DOMAIN msg.attributes = {"count"}
                      /\ msg.attributes.count = <<"0">>
                 ELSE /\ DOMAIN msg.attributes = AttributeNames
                      /\ msg.attributes.webhook_id = webhook.webhookId
                      /\ msg.attributes.event_id = webhook.id
                      /\ msg.attributes.network = webhook.network
                      /\ IsDecimal(msg.attributes.count)
                      /\ ParseNat(msg.attributes.count) = n

C11_Witness ==
    /\ ppc = "returned"
    /\ perr = "nil"
    /\ transfers = <<>>
    /\ Len(published) = 1
    /\ published[1].attributes = [count |-> <<"0">>]

\* C12: PublishTransfers returns nil only when the topic has acknowledged
\* the message, which is then in the topic whole (one message holding every
\* record); when the acknowledgment is an error the invocation returns an
\* error; and while the result is not ready the invocation has not
\* returned success.
C12_SuccessOnlyAfterAck ==
    /\ (ppc = "inflight" => perr = "none")
    /\ (ppc = "returned" /\ ack = "err" => perr = "err")
    /\ (ppc = "returned" /\ ack = "none" => perr = "err")
    /\ (ppc = "returned" /\ perr = "nil") =>
           /\ ack = "ok"
           /\ Len(submitted) = 1
           /\ published # <<>>
           /\ published[Len(published)] = submitted[1]
           /\ Len(submitted[1].data) = Len(transfers)

C12_Witness ==
    /\ ppc = "returned"
    /\ ack = "err"
    /\ perr = "err"
    /\ Len(transfers) = 2
    /\ pcalls = 2
    /\ Len(published) = 1

-----------------------------------------------------------------------------
(* Claims about the HTTP handler, continued (Spec).                        *)

NothingProcessed == /\ transfers = <<>>
                    /\ submitted = <<>>
                    /\ published = <<>>
                    /\ store = <<>>
                    /\ pcalls = 0
                    /\ calls = 0

SideEffectStep == \/ submitted' # submitted /\ submitted' # <<>>
                  \/ published' # published
                  \/ store' # store
                  \/ pcalls' # pcalls
                  \/ calls' # calls

\* C13: a request whose signature does not verify is answered 403 every
\* time the check is reached (500 is written instead only when the signing
\* key is not configured or the body cannot be read, before the check),
\* nothing is ever extracted, published or written for it, and every step
\* that publishes or writes belongs to a request whose signature check has
\* succeeded and is taken after that check.
C13_BadSignatureStopsProcessing ==
    /\ [](~req.sigValid =>
              /\ NothingProcessed
              /\ hpc \in {"idle", "responded"}
              /\ \A i \in 1..Len(responses) :
                     responses[i] = IF req.keySet /\ req.bodyOK THEN 403
                                    ELSE 500)
    /\ [][SideEffectStep =>
              /\ req.keySet /\ req.bodyOK /\ req.sigValid /\ req.jsonValid
              /\ hpc \in {"publish", "publishing", "write", "writing"}]_vars

C13_Witness ==
    /\ ~req.sigValid
    /\ req.jsonValid /\ req.pubsub /\ req.firestore
    /\ Len(ParsedDocs) = 2
    /\ responses = <<403, 403>>
    /\ NothingProcessed

ResponseWritten == hpc' = "responded" /\ hpc # "responded" /\ hpc # "idle"

NewResponse == responses'[Len(responses')]

(* The enabled side effect the handler is in has returned an error.        *)
OperationFailed == \/ hpc = "publishing" /\ ppc = "returned" /\ perr # "nil"
                   \/ hpc = "writing" /\ wpc = "returned" /\ werr # "nil"

(* The response is written where the publisher or the writer is            *)
(* constructed: NewPubSubPublisher or NewFirestoreWriter has failed.       *)
ConstructionFailed == ResponseWritten /\ hpc \in {"publish", "write"}

SideEffectFailed == OperationFailed \/ ConstructionFailed

\* C14: the response written when an enabled side effect has failed is 500;
\* the handler never leaves a failed publish or write other than by that
\* response, so a 200 is only written when the publish step (if enabled)
\* returned nil and the store write (if enabled) returned nil; each
\* delivery invokes the publisher and the writer at most once; and an
\* authenticated body that does not decode is answered 400 with nothing
\* processed.
C14_FailuresSurfaceAs500 ==
    /\ [][(ResponseWritten /\ SideEffectFailed => NewResponse = 500)
          /\ (ResponseWritten /\ ~SideEffectFailed => NewResponse = 200)
          /\ (OperationFailed /\ hpc' # hpc => hpc' = "responded")]_vars
    /\ [](/\ pcalls <= deliveries
          /\ calls <= deliveries
          /\ (Responded(200) /\ transfers # <<>> =>
                  /\ (req.pubsub => ppc = "returned" /\ perr = "nil")
                  /\ (req.firestore => wpc = "returned" /\ werr = "nil"))
          /\ (req.keySet /\ req.bodyOK /\ req.sigValid /\ ~req.jsonValid =>
                  /\ NothingProcessed
                  /\ \A i \in 1..Len(responses) : responses[i] = 400))

C14_Witness ==
    /\ req.pubsub /\ req.firestore
    /\ responses = <<500, 500>>
    /\ pcalls = 2
    /\ calls = 1
    /\ perr = "nil"
    /\ werr = "err"
    /\ Len(published) = 1

Authenticated == req.keySet /\ req.bodyOK /\ req.sigValid

\* C15: an authenticated notification that decodes and from which nothing
\* is extracted (no entries, or only entries the extractor skips) is
\* answered 200 on every delivery, whatever side effects are enabled, and
\* neither the publisher nor the writer is invoked for it.
C15_EmptyExtractionIsSuccess ==
    (Authenticated /\ req.jsonValid /\ ParsedDocs = <<>>) =>
        /\ \A i \in 1..Len(responses) : responses[i] = 200
        /\ hpc \in {"idle", "responded"}
        /\ Len(responses) = deliveries
        /\ NothingProcessed

C15_Witness ==
    /\ Authenticated /\ req.jsonValid
    /\ req.pubsub /\ req.firestore
    /\ Len(webhook.logs) = 2
    /\ ParsedDocs = <<>>
    /\ responses = <<200, 200>>

PublishStepFailed == \/ hpc = "publish" /\ hpc' = "responded"
                     \/ hpc = "publishing" /\ ppc = "returned" /\ perr # "nil"

BothEnabled == req.pubsub /\ req.firestore

\* C16 as stated: with both side effects enabled, a failed publish step
\* does not keep the handler from going on to the store write.
C16_Original ==
    [][BothEnabled /\ PublishStepFailed /\ hpc' # hpc => hpc' = "write"]_vars

\* C16, amended: with both side effects enabled the writer is invoked only
\* after the publisher has returned nil, on the very sequence whose
\* serialization was published; a failed publish step ends the delivery
\* with 500 without invoking the writer or changing the store; and after a
\* 200 the committed records are the published ones, in the same order.
C16_Amended ==
    /\ [][/\ (BothEnabled /\ calls' # calls =>
                  /\ ppc = "returned" /\ perr = "nil"
                  /\ Len(submitted) = 1
                  /\ submitted[1].data = Marshal(transfers'))
          /\ (BothEnabled /\ PublishStepFailed /\ hpc' # hpc =>
                  /\ hpc' = "responded"
                  /\ NewResponse = 500
                  /\ UNCHANGED <<store, calls, committed>>)]_vars
    /\ [](BothEnabled /\ Responded(200) /\ transfers # <<>> =>
              /\ issued = transfers
              /\ published # <<>>
              /\ published[Len(published)].data = Marshal(issued))

C16_Witness ==
    /\ BothEnabled
    /\ Len(transfers) = 2
    /\ responses = <<500>>
    /\ ppc = "returned" /\ perr = "err"
    /\ calls = 0
    /\ store = <<>>

-----------------------------------------------------------------------------
(* Claims about cancellation and retries (SpecCore).                       *)

CommittedGroups == {i \in 1..Len(txLog) : txLog[i].outcome = "committed"}

(* The records of the groups committed so far by this invocation.          *)
CommittedPrefix ==
    SubSeq(transfers, 1,
           Min(Cardinality(CommittedGroups) * batchLimit, Len(transfers)))

StoredKeys(records) == {DocRef(records[id]) : id \in DOMAIN records}

\* C17: when the context is done while WriteBatchTransfers is inside a
\* group's transaction or PublishTransfers is blocked in Get, the operation
\* returns an error and never nil; from then on the writer begins no
\* further transaction; and at every moment the store holds whole groups
\* only: the documents of the groups committed before, none of the group
\* that was in flight.
C17_CancellationIsAnError ==
    /\ [](/\ (~CtxLive /\ calls > 0 /\ wpc = "returned" => werr = "err")
          /\ (~CtxLive /\ pcalls > 0 /\ ppc = "returned" => perr = "err")
          /\ (~CtxLive /\ calls > 0 =>
                  /\ issued = CommittedPrefix
                  /\ DOMAIN store = StoredKeys(committed)
                  /\ txLog # <<>>
                  /\ txLog[Len(txLog)].outcome # "committed"))
    /\ [][~CtxLive /\ ctx' = ctx => Len(txLog') <= Len(txLog)]_vars

C17_Witness ==
    /\ ~CtxLive
    /\ Len(transfers) = batchLimit + 1
    /\ wpc = "returned"
    /\ werr = "err"
    /\ calls = 1
    /\ Len(txLog) = 2
    /\ txLog[1].outcome = "committed"
    /\ txLog[2].outcome = "failed"
    /\ Cardinality(DOMAIN store) = batchLimit

\* C18: the transactions of one invocation are for pairwise different
\* groups, in increasing order, each begun once; a failed transaction is
\* the last one of its invocation; there are never more than ceil(L/500)
\* of them; and one invocation of PublishTransfers hands one message to
\* the topic, which holds at most one message per invocation.
C18_NoInternalRetry ==
    LET m == Len(txLog)
    IN /\ m <= Ceil(Len(transfers), batchLimit)
       /\ \A i \in 1..m : \A j \in 1..m :
              i < j => txLog[i].start < txLog[j].start
       /\ \A i \in 1..m :
              txLog[i].outcome = "failed" =>
                  /\ i = m
                  /\ wpc = "returned"
                  /\ werr = "err"
       /\ Len(submitted) <= 1
       /\ (PublisherInvoked => Len(submitted) = 1)
       /\ Len(published) <= pcalls

C18_Witness ==
    /\ Len(transfers) = batchLimit + 1
    /\ wpc = "returned"
    /\ werr = "err"
    /\ calls = 2
    /\ Len(txLog) = 1
    /\ txLog[1].outcome = "failed"
    /\ CtxLive

-----------------------------------------------------------------------------
(* Claims about the stored documents over many invocations (SpecStore).    *)

CommittedIdentities == DOMAIN committed

OneDocumentPerIdentity ==
    /\ Cardinality(DOMAIN store) = Cardinality(CommittedIdentities)
    /\ \A id \in CommittedIdentities :
           /\ DocRef(committed[id]) \in DOMAIN store
           /\ store[DocRef(committed[id])] = committed[id]

\* C19 as stated: after any invocations the store holds as many documents
\* as there are distinct (txHash, logPosition) pairs among the committed
\* records, and the document of each pair is the record committed last
\* with that pair.
C19_Original == OneDocumentPerIdentity

\* C19, amended: the store never holds more documents than there are
\* distinct identities among the committed records, every document is the
\* record committed last under its key, and when every committed record
\* has a non-negative log position there is exactly one document per
\* identity, holding the record committed last with that identity.
C19_Amended ==
    /\ Cardinality(DOMAIN store) <= Cardinality(CommittedIdentities)
    /\ DOMAIN store = StoredKeys(committed)
    /\ \A key \in DOMAIN store :
           \E id \in CommittedIdentities : store[key] = committed[id]
    /\ (\A id \in CommittedIdentities : id[2] >= 0) => OneDocumentPerIdentity

C19_Witness ==
    /\ wpc = "returned"
    /\ werr = "nil"
    /\ calls = 2
    /\ transfers = <<StoreDoc(<<"a">>, 1, 3), StoreDoc(<<"a">>, 1, 4)>>
    /\ CommittedIdentities = {<<<<"a">>, 1>>, <<<<"a">>, 2>>}
    /\ Cardinality(DOMAIN store) = 2
    /\ store[DocRef(StoreDoc(<<"a">>, 1, 4))] = StoreDoc(<<"a">>, 1, 4)

-----------------------------------------------------------------------------
(* Claims about the HTTP handler, the 200 response (Spec).                 *)

\* C20: when 200 is the answer to a notification with extracted records,
\* then, if publishing is enabled, the one message of this delivery has
\* been acknowledged and carries every extracted record in order, and, if
\* persistence is enabled, the writer has returned nil and every extracted
\* record's document is in the store under its key; a delivery gets at
\* most one message acknowledged; and the writer is only invoked once the
\* publish step, when enabled, has returned nil on an acknowledged message.
C20_SuccessMeansAllDone ==
    /\ [](Responded(200) /\ transfers # <<>> =>
              /\ transfers = ParsedDocs
              /\ (req.pubsub =>
                      /\ ppc = "returned" /\ perr = "nil" /\ ack = "ok"
                      /\ Len(submitted) = 1
                      /\ published # <<>>
                      /\ published[Len(published)] = submitted[1]
                      /\ Len(submitted[1].data) = Len(transfers)
                      /\ \A i \in 1..Len(transfers) :
                             Identity(submitted[1].data[i])
                                 = Identity(transfers[i]))
              /\ (req.firestore =>
                      /\ wpc = "returned" /\ werr = "nil"
                      /\ \A i \in 1..Len(transfers) :
                             LET key == DocRef(transfers[i])
                             IN /\ key \in DOMAIN store
                                /\ \E j \in i..Len(transfers) :
                                       /\ DocRef(transfers[j]) = key
                                       /\ store[key] = transfers[j]))
    /\ [][/\ (published' # published =>
                  /\ ack = "none" /\ ack' = "ok"
                  /\ published' = published \o submitted)
          /\ (calls' # calls /\ req.pubsub =>
                  ppc = "returned" /\ perr = "nil" /\ ack = "ok")]_vars

C20_Witness ==
    /\ BothEnabled
    /\ responses = <<200>>
    /\ Len(transfers) = 2
    /\ Len(published) = 1
    /\ Len(published[1].data) = 2
    /\ Cardinality(DOMAIN store) = 2

====
